---- MODULE Spec2Model ----
(***************************************************************************)
(* Model of the %%mypyc cell magic of mypyc_ipython                        *)
(* (src/mypyc_ipython/_magic.py): the keying of a cell, the probe of the   *)
(* on-disk cache, the compile and build steps on a miss, the load of the   *)
(* artifact and the publication of its names into the user's namespace.    *)
(*                                                                         *)
(* Text is a sequence of characters. mypyc, distutils and the extension    *)
(* loader are outside the repository: each of their calls is a step with   *)
(* a nondeterministic outcome among those the caller's code distinguishes. *)
(* SHA-1 is idealised as collision free: a digest is represented by the    *)
(* string that was hashed. Object files and other byproducts of the build  *)
(* are not represented.                                                    *)
(***************************************************************************)
EXTENDS Integers, Sequences, FiniteSets, TLC

\* ------------------------------------------------------------- bounds

\* time.time() returns one of 1..MaxTime; the wall clock may repeat a value.
MaxTime == 2
\* Invocations of the magic in one behaviour.
MaxInvocations == 2
\* Longest cell text drawn by the keying specification SpecKey.
MaxCellLen == 3
\* Most statements of a cell drawn by the publishing specification SpecPublish.
MaxStatements == 4

\* --------------------------------------------------------- the inputs

\* The characters of a cell. Besides the newline each one stands for one
\* top-level statement of the cell: "f", "g" and "h" define public names,
\* "_" defines the private name _p, "A" assigns __all__ = ["f", "h", "g"].
Alphabet == {"f", "g", "h", "_", "A", "\n"}

Range(s) == {s[i] : i \in 1..Len(s)}

\* The cells the magic is invoked with in Spec.
Cells == { <<"f", "_">>, <<"f", "_", "\n">>, <<"f", "g", "A", "\n">> }

\* The flag lines, as words.
Lines == { <<>>, <<"-f">>, <<"--verbose">> }

\* (sys.version_info, sys.executable, mypy_version) of the running process.
Toolchains ==
  { [version_info |-> "3.8.5", executable |-> "/usr/bin/python3", mypy_version |-> "0.790"],
    [version_info |-> "3.8.5", executable |-> "/usr/bin/python3", mypy_version |-> "0.800"],
    [version_info |-> "3.9.1", executable |-> "/usr/bin/python3", mypy_version |-> "0.790"],
    [version_info |-> "3.8.5", executable |-> "/opt/venv/bin/python", mypy_version |-> "0.790"] }

Times == 1..MaxTime

\* The extension suffix for compiled modules.
so_ext == ".so"

\* distutils.log levels.
DEBUG == 1
WARN == 3

\* ------------------------------------------------------ the fingerprint

\* magic_arguments.parse_argstring: -f/--force sets force, --verbose clears quiet.
ParseArgs(l) ==
  [force |-> ("-f" \in Range(l)) \/ ("--force" \in Range(l)),
   quiet |-> ~("--verbose" \in Range(l))]

EndsWithNewline(c) == Len(c) > 0 /\ c[Len(c)] = "\n"

\* A normalization that appends a newline to every cell.
Normalize_AlwaysAppends(c) == Append(c, "\n")

\* code = cell if cell.endswith("\n") else cell + "\n"
Normalize(c) == IF EndsWithNewline(c) THEN c ELSE Append(c, "\n")

\* A key that leaves the mypy version out.
BaseKey_NoMypyVersion(code, l, tc) == <<code, l, tc.version_info, tc.executable, "">>

\* key = (code, line, sys.version_info, sys.executable, mypy_version)
BaseKey(code, l, tc) == <<code, l, tc.version_info, tc.executable, tc.mypy_version>>

\* if args.force: key += (time.time(),)
MakeKey(code, l, tc, t) ==
  IF ParseArgs(l).force THEN Append(BaseKey(code, l, tc), t) ELSE BaseKey(code, l, tc)

RECURSIVE Escape(_)
\* repr() of the characters of a string: a newline becomes backslash, n.
Escape(s) ==
  IF s = <<>> THEN <<>>
  ELSE (IF Head(s) = "\n" THEN <<"\\", "n">> ELSE <<Head(s)>>) \o Escape(Tail(s))

ReprStr(s) == <<"'">> \o Escape(s) \o <<"'">>

RECURSIVE JoinWords(_)
\* The flag line as typed: its words separated by one blank.
JoinWords(l) ==
  IF l = <<>> THEN <<>>
  ELSE IF Len(l) = 1 THEN <<l[1]>>
  ELSE <<l[1], " ">> \o JoinWords(Tail(l))

\* repr() of the float time.time() returned.
ReprFloat(t) == <<ToString(t), ".", "0">>

\* str(key): the repr of the tuple.
StrKey(k) ==
  <<"(">> \o ReprStr(k[1]) \o <<", ">> \o ReprStr(JoinWords(k[2])) \o
  <<", ", k[3], ", ">> \o ReprStr(<<k[4]>>) \o <<", ">> \o ReprStr(<<k[5]>>) \o
  (IF Len(k) = 6 THEN <<", ">> \o ReprFloat(k[6]) ELSE <<>>) \o <<")">>

\* hashlib.sha1(...).hexdigest(), collision free.
Sha1Hex(s) == [sha1 |-> s]

\* module_name = "_mypyc_magic_" + sha1(str(key)).hexdigest()
ModuleName(k) == [prefix |-> "_mypyc_magic_", digest |-> Sha1Hex(StrKey(k))]

\* module_path = os.path.join(lib_dir, module_name + self.so_ext)
ModulePath(name) == <<name, so_ext>>

\* One source file name for every module.
PyFile_OneName(name) == <<[prefix |-> "_mypyc_magic_", digest |-> Sha1Hex(<<>>)], ".py">>

\* py_file = os.path.join(lib_dir, module_name + ".py")
PyFile(name) == <<name, ".py">>

\* ------------------------------------------------- the black boxes

\* The names a built module binds, from the statements of its source.
Defines(code) ==
  {"__name__"} \cup
  (IF "f" \in Range(code) THEN {"f"} ELSE {}) \cup
  (IF "g" \in Range(code) THEN {"g"} ELSE {}) \cup
  (IF "h" \in Range(code) THEN {"h"} ELSE {}) \cup
  (IF "_" \in Range(code) THEN {"_p"} ELSE {}) \cup
  (IF "A" \in Range(code) THEN {"__all__"} ELSE {})

\* The export list a cell with the statement "A" assigns; the cells of Spec
\* do not define "h".
AllList == <<"f", "h", "g">>

\* module.__dict__ of the module loaded from an artifact: a value is
\* identified by the module it comes from and the name it is bound to.
ModuleDict(name, code) ==
  [k \in Defines(code) |->
     IF k = "__all__" THEN AllList ELSE [module |-> name, attr |-> k]]

\* The name a statement binds.
Binds(ch) ==
  IF ch = "_" THEN <<"_p">>
  ELSE IF ch = "A" THEN <<"__all__">>
  ELSE IF ch = "\n" THEN <<>>
  ELSE <<ch>>

RECURSIVE StatementNames(_)
StatementNames(code) ==
  IF code = <<>> THEN <<>> ELSE Binds(Head(code)) \o StatementNames(Tail(code))

\* The order in which iterating module.__dict__ yields its names: the
\* loader's own first, then the module's in the order of its statements.
DictOrder(code) == <<"__name__">> \o StatementNames(code)

\* What the build driver's run() can end with for a real extension.
RunRaises == {"CompileError", "LinkError"}

\* A test that takes only the double underscore for private.
IsPrivate_DunderOnly(k) == k \in {"__name__", "__all__"}

\* k.startswith("_")
IsPrivate(k) == k \in {"__name__", "__all__", "_p"}

\* A binding the user made before any cell ran.
UserValue == [module |-> [prefix |-> "__main__", digest |-> Sha1Hex(<<>>)], attr |-> "user"]
InitEnv == [k \in {"f", "x"} |-> UserValue]

\* ------------------------------------------------------------ the state

VARIABLES
  lib_dir,       \* whether the cache directory IPYTHONDIR/mypyc exists
  fs,            \* the files of the cache directory: file name -> content
  toolchain,     \* sys.version_info, sys.executable, mypy_version of the process
  code_cache,    \* self._code_cache: key -> module name
  env,           \* the user's namespace (self.shell.push)
  threshold,     \* distutils.log's global threshold
  pc,            \* where the running invocation of mypyc() is
  line, cell,    \* its arguments
  now,           \* the value time.time() returned to it
  code, key, module_name, module_path, need_mypycify, extension,
  old_threshold, \* _build_extension's local
  run_status,    \* how build_extension.run() ended: "ok" or the exception raised
  module,        \* the loaded module's __dict__
  outcome,       \* how the last invocation ended
  compilerCalls, \* calls of mypycify in the running invocation
  runCalls,      \* calls of build_extension.run() in it
  extBuilt,      \* extensions the build driver started to build in it
  loadCalls,     \* calls of importlib._bootstrap._load in it
  envBefore,     \* the user's namespace when it started
  prev,          \* the invocation before it
  invocations,   \* invocations started so far
  missing,       \* the name in the message of the AttributeError _import_all raised
  other          \* the invocation of a second process that shares the cache directory

vars ==
  <<lib_dir, fs, toolchain, code_cache, env, threshold, pc, line, cell, now, code, key,
    module_name, module_path, need_mypycify, extension, old_threshold, run_status,
    module, outcome, compilerCalls, runCalls, extBuilt, loadCalls, envBefore, prev,
    invocations, missing, other>>

locals == <<line, cell, now, code, key, module_name, module_path, need_mypycify>>
counters == <<compilerCalls, runCalls, extBuilt, loadCalls, envBefore, invocations, missing>>

\* Python's None where the other values are strings.
None == "None"
\* Python's None where the other values are not strings: an optional value is
\* a sequence of length at most one.
Nothing == <<>>
Some(x) == <<x>>
NoFiles == <<>>
NoName == [prefix |-> "", digest |-> Sha1Hex(<<>>)]

IsFile(files, path) == path \in DOMAIN files

\* A probe that trusts the in-memory record instead of the disk.
NeedMypycify_Ledger(files, cache, k, path) == k \notin DOMAIN cache

\* A probe that looks for the generated source instead of the artifact.
NeedMypycify_SourceProbe(files, cache, k, path) == ~IsFile(files, <<path[1], ".py">>)

\* A probe that takes a half-written artifact for a miss.
NeedMypycify_CompleteOnly(files, cache, k, path) ==
  ~(IsFile(files, path) /\ files[path].complete)

\* os.path.isfile(module_path) is the only thing the probe reads.
NeedMypycify(files, cache, k, path) == ~IsFile(files, path)

\* The second process before it invokes the magic.
OtherIdle ==
  [pc |-> "idle", line |-> <<>>, code |-> <<>>, module_name |-> NoName,
   need_mypycify |-> FALSE, run_status |-> None, outcome |-> None]

\* The second process's linker is writing the artifact at path.
OtherWrites(path) == other.pc = "linking" /\ ModulePath(other.module_name) = path

\* An invocation ends with one of these outcomes: it returns None after
\* publishing ("Done"), returns None after a failure that was reported
\* ("Failed(CompileError)", "Failed(BuildError)"), or raises ("raise
\* LinkError", "raise ImportError", "raise AttributeError").

InitCommon ==
  /\ lib_dir = FALSE
  /\ fs = NoFiles
  /\ code_cache = <<>>
  /\ env = InitEnv
  /\ threshold = WARN
  /\ pc = "idle"
  /\ now = 0
  /\ code = <<>> /\ key = <<>> /\ module_name = NoName /\ module_path = <<>>
  /\ need_mypycify = FALSE
  /\ extension = Nothing
  /\ old_threshold = Nothing
  /\ run_status = None
  /\ module = <<>>
  /\ outcome = None
  /\ compilerCalls = 0 /\ runCalls = 0 /\ extBuilt = 0 /\ loadCalls = 0
  /\ envBefore = InitEnv
  /\ prev = Nothing
  /\ invocations = 0
  /\ missing = None
  /\ other = OtherIdle

\* The toolchain the processes of Spec run under.
Installed == [version_info |-> "3.8.5", executable |-> "/usr/bin/python3", mypy_version |-> "0.790"]

Init == InitCommon /\ toolchain = Installed /\ line = <<>> /\ cell = <<>>

\* What an invocation that ended with outcome o leaves for the next one to
\* be compared with.
Snapshot(o) ==
  [line |-> line, code |-> code, key |-> key, module_path |-> module_path,
   need_mypycify |-> need_mypycify, outcome |-> o]

\* mypyc(), lines 90-109: the arguments, the key, the cache directory made
\* if it is missing, the names and the probe.
InvokeWith(l, c, t) ==
  /\ pc = "idle"
  /\ invocations < MaxInvocations
  /\ line' = l /\ cell' = c
  /\ lib_dir' = TRUE
  /\ now' = IF ParseArgs(l).force THEN t ELSE 0
  /\ code' = Normalize(c)
  /\ key' = MakeKey(code', l, toolchain, t)
  /\ module_name' = ModuleName(key')
  /\ module_path' = ModulePath(module_name')
  /\ need_mypycify' = NeedMypycify(fs, code_cache, key', module_path')
  /\ extension' = Nothing
  /\ old_threshold' = Nothing /\ run_status' = None /\ module' = <<>>
  /\ outcome' = None
  /\ compilerCalls' = 0 /\ runCalls' = 0 /\ extBuilt' = 0 /\ loadCalls' = 0
  /\ envBefore' = env
  /\ invocations' = invocations + 1
  /\ missing' = None
  /\ pc' = "probed"
  /\ UNCHANGED <<fs, toolchain, code_cache, env, threshold, prev, other>>

Invoke == \E l \in Lines, c \in Cells, t \in Times : InvokeWith(l, c, t)

\* The invocation ends: it returns or raises.
Finish(o) ==
  /\ outcome' = o
  /\ pc' = "idle"
  /\ prev' = Some(Snapshot(o))

\* The invocation goes on to its step at label l.
Goto(l) ==
  /\ pc' = l
  /\ UNCHANGED <<outcome, prev>>

\* _mypycify on a miss (lines 110-119, 134-138): the cell is written to
\* module_name.py and mypycify is called; it returns None after a reported
\* compilation failure, or a list of one extension, which is recorded.
Mypycify ==
  /\ pc = "probed"
  /\ need_mypycify
  /\ fs' = (PyFile(module_name) :> [kind |-> "source", text |-> code]) @@ fs
  /\ compilerCalls' = compilerCalls + 1
  /\ \E extensions \in {Nothing, Some([name |-> module_name, source |-> code])} :
       IF extensions = Nothing
       THEN /\ Finish("Failed(CompileError)")
            /\ UNCHANGED <<extension, code_cache>>
       ELSE /\ extension' = extensions
            /\ code_cache' = (key :> module_name) @@ code_cache
            /\ Goto("build")
  /\ UNCHANGED <<toolchain, env, threshold, lib_dir, locals, other, old_threshold, run_status, module,
                 runCalls, extBuilt, loadCalls, envBefore, invocations, missing>>

\* A hit that goes to the loader without calling _build_extension.
CacheHit_SkipsBuild ==
  /\ pc = "probed"
  /\ ~need_mypycify
  /\ Goto("load")
  /\ UNCHANGED <<fs, toolchain, code_cache, env, threshold, lib_dir, locals, other, extension,
                 old_threshold, run_status, module, counters>>

\* need_mypycify is false (line 110): extension stays None.
CacheHit ==
  /\ pc = "probed"
  /\ ~need_mypycify
  /\ Goto("build")
  /\ UNCHANGED <<fs, toolchain, code_cache, env, threshold, lib_dir, locals, other, extension,
                 old_threshold, run_status, module, counters>>

\* _build_extension, lines 141-147: called on a hit as on a miss; with
\* quiet false the threshold is lowered to DEBUG and the old one kept.
BuildExtensionEnter ==
  /\ pc = "build"
  /\ IF ~ParseArgs(line).quiet
     THEN /\ old_threshold' = Some(threshold)
          /\ threshold' = DEBUG
     ELSE UNCHANGED <<old_threshold, threshold>>
  /\ Goto("run")
  /\ UNCHANGED <<fs, toolchain, code_cache, env, lib_dir, locals, other, extension, run_status, module,
                 counters>>

\* build_extension.run() with no extension set (build_ext.extensions is
\* empty): it returns at once.
RunNoExtension ==
  /\ pc = "run"
  /\ extension = Nothing
  /\ runCalls' = runCalls + 1
  /\ run_status' = "ok"
  /\ Goto("finally")
  /\ UNCHANGED <<fs, toolchain, code_cache, env, threshold, lib_dir, locals, other, extension,
                 old_threshold, module, compilerCalls, extBuilt, loadCalls,
                 envBefore, invocations, missing>>

\* build_extension.run() with the extension: the C compiler runs first and
\* may fail (CompileError, also when the compiler cannot be started).
RunCompile ==
  /\ pc = "run"
  /\ extension # Nothing
  /\ runCalls' = runCalls + 1
  /\ extBuilt' = extBuilt + 1
  /\ \E st \in {"ok", "CompileError"} :
       IF st = "ok"
       THEN Goto("link") /\ UNCHANGED run_status
       ELSE Goto("finally") /\ run_status' = st
  /\ UNCHANGED <<fs, toolchain, code_cache, env, threshold, lib_dir, locals, other, extension,
                 old_threshold, module, compilerCalls, loadCalls, envBefore,
                 invocations, missing>>

\* The linker starts: it fails (LinkError) or begins to write the artifact
\* at build_lib/<extension name><so_ext>, which is module_path.
LinkBegin ==
  /\ pc = "link"
  /\ \E st \in {"ok", "LinkError"} :
       IF st = "ok"
       THEN /\ fs' = (ModulePath(extension[1].name) :>
                        [kind |-> "artifact", text |-> extension[1].source,
                         complete |-> FALSE]) @@ fs
            /\ Goto("linking")
            /\ UNCHANGED run_status
       ELSE /\ Goto("finally")
            /\ run_status' = st
            /\ UNCHANGED fs
  /\ UNCHANGED <<toolchain, code_cache, env, threshold, lib_dir, locals, other, extension, old_threshold,
                 module, counters>>

\* The linker finishes writing the artifact; run() returns. The file is
\* whole unless the linker of the second process is still writing it.
LinkEnd ==
  /\ pc = "linking"
  /\ fs' = [fs EXCEPT ![ModulePath(extension[1].name)].complete =
                        ~OtherWrites(ModulePath(extension[1].name))]
  /\ run_status' = "ok"
  /\ Goto("finally")
  /\ UNCHANGED <<toolchain, code_cache, env, threshold, lib_dir, locals, other, extension, old_threshold,
                 module, counters>>

\* A handler that runs the build again after a failure.
AfterBuild_Retries(st) ==
  IF st = "ok" THEN Goto("load") ELSE Goto("run")

\* What mypyc() does with the way _build_extension ended (lines 121-125):
\* only distutils.errors.CompileError is caught.
AfterBuild(st) ==
  IF st = "ok" THEN Goto("load")
  ELSE IF st = "CompileError" THEN Finish("Failed(BuildError)")
  ELSE Finish("raise LinkError")

\* A finally that leaves the threshold where the call put it.
BuildExtensionFinally_NoRestore ==
  /\ pc = "finally"
  /\ AfterBuild(run_status)
  /\ UNCHANGED <<fs, toolchain, code_cache, env, threshold, lib_dir, locals, other, extension,
                 old_threshold, run_status, module, counters>>

\* _build_extension's finally (lines 149-151) restores the threshold; then
\* the exception, if any, reaches mypyc().
BuildExtensionFinally ==
  /\ pc = "finally"
  /\ IF ~ParseArgs(line).quiet /\ old_threshold # Nothing
     THEN threshold' = old_threshold[1]
     ELSE UNCHANGED threshold
  /\ AfterBuild(run_status)
  /\ UNCHANGED <<fs, toolchain, code_cache, env, lib_dir, locals, other, extension, old_threshold,
                 run_status, module, counters>>

\* Whether the extension loader can load what is at path: a missing or
\* half-written file cannot be loaded.
Loadable(files, path) == IsFile(files, path) /\ files[path].complete

\* ExtensionFileLoader / importlib._bootstrap._load (lines 127-131): the
\* module is created from the artifact at module_path, or ImportError is
\* raised (missing, corrupt or binary-incompatible file).
Load ==
  /\ pc = "load"
  /\ loadCalls' = loadCalls + 1
  /\ \E ok \in BOOLEAN :
       IF ok /\ Loadable(fs, module_path)
       THEN /\ module' = ModuleDict(module_name, fs[module_path].text)
            /\ Goto("publish")
       ELSE /\ Finish("raise ImportError")
            /\ UNCHANGED module
  /\ UNCHANGED <<fs, toolchain, code_cache, env, threshold, lib_dir, locals, other, extension,
                 old_threshold, run_status, compilerCalls, runCalls, extBuilt,
                 envBefore, invocations, missing>>

RECURSIVE PushAll_SkipsMissing(_, _, _)
\* A loop that goes on to the next name after a missing one.
PushAll_SkipsMissing(e, mdict, keys) ==
  IF keys = <<>> THEN [env |-> e, error |-> None, missing |-> None]
  ELSE IF Head(keys) \in DOMAIN mdict
       THEN PushAll_SkipsMissing((Head(keys) :> mdict[Head(keys)]) @@ e, mdict, Tail(keys))
       ELSE [PushAll_SkipsMissing(e, mdict, Tail(keys)) EXCEPT
               !.error = "AttributeError", !.missing = Head(keys)]

\* A loop that looks for a missing name before it pushes anything.
PushAll_ChecksFirst(e, mdict, keys) ==
  IF \A i \in 1..Len(keys) : keys[i] \in DOMAIN mdict
  THEN PushAll_SkipsMissing(e, mdict, keys)
  ELSE [env |-> e, error |-> "AttributeError",
        missing |-> keys[CHOOSE i \in 1..Len(keys) :
                           /\ keys[i] \notin DOMAIN mdict
                           /\ \A j \in 1..(i - 1) : keys[j] \in DOMAIN mdict]]

RECURSIVE PushAll_KeepsExisting(_, _, _)
\* A loop whose push does not rebind a name the namespace already has.
PushAll_KeepsExisting(e, mdict, keys) ==
  IF keys = <<>> THEN [env |-> e, error |-> None, missing |-> None]
  ELSE IF Head(keys) \in DOMAIN mdict
       THEN PushAll_KeepsExisting(e @@ (Head(keys) :> mdict[Head(keys)]), mdict, Tail(keys))
       ELSE [env |-> e, error |-> "AttributeError", missing |-> Head(keys)]

RECURSIVE PushAll(_, _, _)
\* The loop of _import_all (lines 45-50): each name is pushed in turn; a
\* name missing from the module raises AttributeError and ends the loop,
\* with the names before it already pushed.
PushAll(e, mdict, keys) ==
  IF keys = <<>> THEN [env |-> e, error |-> None, missing |-> None]
  ELSE IF Head(keys) \in DOMAIN mdict
       THEN PushAll((Head(keys) :> mdict[Head(keys)]) @@ e, mdict, Tail(keys))
       ELSE [env |-> e, error |-> "AttributeError", missing |-> Head(keys)]

NotPrivate(k) == ~IsPrivate(k)

\* A selection that does not look at __all__.
ExportKeys_IgnoresAll(mdict, order) == SelectSeq(order, NotPrivate)

\* The names _import_all selects (lines 39-43): __all__ if the module
\* defines it, else every name that does not start with an underscore.
ExportKeys(mdict, order) ==
  IF "__all__" \in DOMAIN mdict THEN mdict["__all__"]
  ELSE SelectSeq(order, NotPrivate)

\* _import_all(module), line 132: the invocation ends with it.
ImportAll ==
  /\ pc = "publish"
  /\ LET r == PushAll(env, module, ExportKeys(module, DictOrder(fs[module_path].text)))
     IN /\ env' = r.env
        /\ missing' = r.missing
        /\ Finish(IF r.error = None THEN "Done" ELSE "raise AttributeError")
  /\ UNCHANGED <<fs, toolchain, code_cache, threshold, lib_dir, locals, other, extension, old_threshold,
                 run_status, module, compilerCalls, runCalls, extBuilt, loadCalls,
                 envBefore, invocations>>

\* The IPython process ends and a new one loads the extension: a new
\* MypycMagics (lines 33-36) and a new user namespace; the cache directory
\* stays.
Restart ==
  /\ pc = "idle"
  /\ outcome # None
  /\ code_cache' = <<>>
  /\ env' = InitEnv
  /\ threshold' = WARN
  /\ line' = <<>> /\ cell' = <<>> /\ now' = 0
  /\ code' = <<>> /\ key' = <<>> /\ module_name' = NoName /\ module_path' = <<>>
  /\ need_mypycify' = FALSE
  /\ extension' = Nothing
  /\ old_threshold' = Nothing
  /\ run_status' = None
  /\ module' = <<>>
  /\ outcome' = None
  /\ compilerCalls' = 0 /\ runCalls' = 0 /\ extBuilt' = 0 /\ loadCalls' = 0
  /\ envBefore' = InitEnv
  /\ missing' = None
  /\ UNCHANGED <<lib_dir, fs, toolchain, pc, prev, invocations, other>>

Next ==
  \/ Invoke
  \/ Mypycify
  \/ CacheHit
  \/ BuildExtensionEnter
  \/ RunNoExtension
  \/ RunCompile
  \/ LinkBegin
  \/ LinkEnd
  \/ BuildExtensionFinally
  \/ Load
  \/ ImportAll
  \/ Restart

Spec == Init /\ [][Next]_vars

\* ------------------------------------------- the two-process specification

\* The second process runs the same mypyc() on the same cache directory,
\* under the same toolchain; of its own state only what decides its steps
\* on the directory is kept. Lines 90-107: the key, the directory, the probe.
OtherInvoke ==
  /\ other.pc = "idle" /\ other.outcome = None
  /\ lib_dir' = TRUE
  /\ \E l \in Lines, c \in Cells, t \in Times :
       LET k == MakeKey(Normalize(c), l, toolchain, t) IN
         other' = [pc |-> "probed", line |-> l, code |-> Normalize(c),
                   module_name |-> ModuleName(k),
                   need_mypycify |-> NeedMypycify(fs, <<>>, k, ModulePath(ModuleName(k))),
                   run_status |-> None, outcome |-> None]
  /\ UNCHANGED <<fs, toolchain, code_cache, env, threshold, pc, locals, extension,
                 old_threshold, run_status, module, outcome, prev, counters>>

\* Lines 110-119 and 134-138 in the second process.
OtherMypycify ==
  /\ other.pc = "probed" /\ other.need_mypycify
  /\ fs' = (PyFile(other.module_name) :> [kind |-> "source", text |-> other.code]) @@ fs
  /\ \E ok \in BOOLEAN :
       other' = IF ok THEN [other EXCEPT !.pc = "run"]
                ELSE [other EXCEPT !.pc = "idle", !.outcome = "Failed(CompileError)"]
  /\ UNCHANGED <<lib_dir, toolchain, code_cache, env, threshold, pc, locals, extension,
                 old_threshold, run_status, module, outcome, prev, counters>>

\* A hit in the second process: _build_extension has nothing to build.
OtherCacheHit ==
  /\ other.pc = "probed" /\ ~other.need_mypycify
  /\ other' = [other EXCEPT !.pc = "load", !.run_status = "ok"]
  /\ UNCHANGED <<lib_dir, fs, toolchain, code_cache, env, threshold, pc, locals, extension,
                 old_threshold, run_status, module, outcome, prev, counters>>

\* build_extension.run() in the second process: the C compiler.
OtherRunCompile ==
  /\ other.pc = "run"
  /\ \E st \in {"ok", "CompileError"} :
       other' = IF st = "ok" THEN [other EXCEPT !.pc = "link"]
                ELSE [other EXCEPT !.pc = "idle", !.run_status = st,
                                   !.outcome = "Failed(BuildError)"]
  /\ UNCHANGED <<lib_dir, fs, toolchain, code_cache, env, threshold, pc, locals, extension,
                 old_threshold, run_status, module, outcome, prev, counters>>

\* A link step that writes the artifact under a name of the process's own.
OtherLinkBegin_OwnName ==
  /\ other.pc = "link"
  /\ fs' = (<<other.module_name, ".other", so_ext>> :>
              [kind |-> "artifact", text |-> other.code, complete |-> FALSE]) @@ fs
  /\ other' = [other EXCEPT !.pc = "linking"]
  /\ UNCHANGED <<lib_dir, toolchain, code_cache, env, threshold, pc, locals, extension,
                 old_threshold, run_status, module, outcome, prev, counters>>

\* The second process's linker fails or begins to write the artifact, at
\* the same path as the first process's for the same key.
OtherLinkBegin ==
  /\ other.pc = "link"
  /\ \E st \in {"ok", "LinkError"} :
       IF st = "ok"
       THEN /\ fs' = (ModulePath(other.module_name) :>
                        [kind |-> "artifact", text |-> other.code, complete |-> FALSE]) @@ fs
            /\ other' = [other EXCEPT !.pc = "linking"]
       ELSE /\ other' = [other EXCEPT !.pc = "idle", !.run_status = st,
                                      !.outcome = "raise LinkError"]
            /\ UNCHANGED fs
  /\ UNCHANGED <<lib_dir, toolchain, code_cache, env, threshold, pc, locals, extension,
                 old_threshold, run_status, module, outcome, prev, counters>>

\* The second process's linker finishes: the file is whole unless the first
\* process's linker is still writing it.
OtherLinkEnd ==
  /\ other.pc = "linking"
  /\ fs' = (ModulePath(other.module_name) :>
              [kind |-> "artifact", text |-> other.code,
               complete |-> ~(pc = "linking" /\ module_path = ModulePath(other.module_name))])
           @@ fs
  /\ other' = [other EXCEPT !.pc = "load", !.run_status = "ok"]
  /\ UNCHANGED <<lib_dir, toolchain, code_cache, env, threshold, pc, locals, extension,
                 old_threshold, run_status, module, outcome, prev, counters>>

\* Lines 127-132 in the second process: it loads the artifact and publishes
\* into its own namespace, or the load raises.
OtherLoad ==
  /\ other.pc = "load"
  /\ \E ok \in BOOLEAN :
       other' = [other EXCEPT !.pc = "idle",
                              !.outcome = IF ok /\ Loadable(fs, ModulePath(other.module_name))
                                          THEN "Done" ELSE "raise ImportError"]
  /\ UNCHANGED <<lib_dir, fs, toolchain, code_cache, env, threshold, pc, locals, extension,
                 old_threshold, run_status, module, outcome, prev, counters>>

OtherNext ==
  \/ OtherInvoke
  \/ OtherMypycify
  \/ OtherCacheHit
  \/ OtherRunCompile
  \/ OtherLinkBegin
  \/ OtherLinkEnd
  \/ OtherLoad

\* The first process has one invocation left when the second one starts.
InitRace ==
  /\ lib_dir = FALSE
  /\ fs = NoFiles
  /\ code_cache = <<>>
  /\ env = InitEnv
  /\ threshold = WARN
  /\ pc = "idle"
  /\ now = 0
  /\ code = <<>> /\ key = <<>> /\ module_name = NoName /\ module_path = <<>>
  /\ need_mypycify = FALSE
  /\ extension = Nothing
  /\ old_threshold = Nothing
  /\ run_status = None
  /\ module = <<>>
  /\ outcome = None
  /\ compilerCalls = 0 /\ runCalls = 0 /\ extBuilt = 0 /\ loadCalls = 0
  /\ envBefore = InitEnv
  /\ prev = Nothing
  /\ invocations = MaxInvocations - 1
  /\ missing = None
  /\ other = OtherIdle
  /\ toolchain = Installed /\ line = <<>> /\ cell = <<>>

NextRace == Next \/ OtherNext

SpecRace == InitRace /\ [][NextRace]_vars

\* ------------------------------------------- the keying specification

\* Every text of at most MaxCellLen characters.
KeyCells == UNION { [1..n -> Alphabet] : n \in 0..MaxCellLen }

KeyLines == Lines \cup { <<"--force">>, <<"-f", "--verbose">> }

\* One invocation's keying (lines 90-107) on every cell, flag line and
\* toolchain of the sets above.
InitKey == InitCommon /\ toolchain \in Toolchains /\ line \in KeyLines /\ cell \in KeyCells

NextKey == \E t \in Times : InvokeWith(line, cell, t)

SpecKey == InitKey /\ [][NextKey]_vars

\* --------------------------------------- the publishing specification

\* Every cell of at most MaxStatements statements, without newlines.
PublishCells == UNION { [1..n -> Alphabet \ {"\n"}] : n \in 0..MaxStatements }

\* The module an earlier cell was built into, and the user's namespace after
\* that cell's f and g were published.
EarlierCode == <<"f", "g", "_", "\n">>
EarlierModule == ModuleName(MakeKey(EarlierCode, <<>>, Installed, 0))
EarlierEnv ==
  PushAll(InitEnv, ModuleDict(EarlierModule, EarlierCode),
          ExportKeys(ModuleDict(EarlierModule, EarlierCode), DictOrder(EarlierCode))).env

PublishEnvs == {InitEnv, EarlierEnv}

\* An invocation that hit the cache and loaded the artifact of its cell
\* (lines 90-131), about to call _import_all.
InitPublish ==
  /\ lib_dir = TRUE
  /\ toolchain = Installed
  /\ line = <<>> /\ cell \in PublishCells
  /\ now = 0
  /\ code = Normalize(cell)
  /\ key = MakeKey(code, line, toolchain, 0)
  /\ module_name = ModuleName(key)
  /\ module_path = ModulePath(module_name)
  /\ fs = (PyFile(module_name) :> [kind |-> "source", text |-> code]) @@
          (module_path :> [kind |-> "artifact", text |-> code, complete |-> TRUE])
  /\ code_cache = <<>>
  /\ env \in PublishEnvs
  /\ envBefore = env
  /\ threshold = WARN
  /\ pc = "publish"
  /\ need_mypycify = FALSE
  /\ extension = Nothing
  /\ old_threshold = Nothing
  /\ run_status = "ok"
  /\ module = ModuleDict(module_name, code)
  /\ outcome = None
  /\ compilerCalls = 0 /\ runCalls = 1 /\ extBuilt = 0 /\ loadCalls = 1
  /\ prev = Nothing
  /\ invocations = 1
  /\ missing = None
  /\ other = OtherIdle

NextPublish == ImportAll

SpecPublish == InitPublish /\ [][NextPublish]_vars

\* ------------------------------------------------------------ the claims

Force == ParseArgs(line).force

\* The invocation has gone past the probe and the compile step.
PastCompile == pc \notin {"idle", "probed"} \/ (pc = "idle" /\ outcome # None)

\* The running invocation repeats the inputs of the one before it.
SameInputs ==
  pc # "idle" /\ prev # Nothing /\ prev[1].code = code /\ prev[1].line = line

\* C1: the compiler is called exactly when no file is at the canonical path
\* at probe time, whatever _code_cache holds; a non-forced invocation that
\* repeats the inputs of a successful one makes no compiler call and uses
\* the same artifact path.
C1_DiskDecidesCompile ==
  /\ pc = "probed" =>
       /\ need_mypycify <=> ~(module_path \in DOMAIN fs)
       /\ compilerCalls = 0
  /\ PastCompile => (compilerCalls = 1 <=> need_mypycify)
  /\ (SameInputs /\ ~Force /\ prev[1].outcome = "Done") =>
       /\ ~need_mypycify
       /\ compilerCalls = 0
       /\ module_path = prev[1].module_path

C1_Witness ==
  /\ SameInputs /\ ~Force /\ prev[1].outcome = "Done"
  /\ DOMAIN code_cache = {}
  /\ pc = "publish"
  /\ compilerCalls = 0

\* C2 as stated: on a cache hit neither the compiler nor the build driver
\* has been invoked when the artifact is loaded.
C2_HitInvokesNoBuildDriver ==
  (pc = "load" /\ ~need_mypycify) => (compilerCalls = 0 /\ runCalls = 0)

\* C2 amended: on a cache hit the compiler is not invoked and the build
\* driver is run once with no extension, so that nothing is built, before
\* the artifact is loaded.
C2_HitBuildsNothing ==
  (~need_mypycify /\ (pc \in {"load", "publish"} \/ (pc = "idle" /\ outcome # None))) =>
    /\ compilerCalls = 0
    /\ extension = Nothing
    /\ runCalls = 1
    /\ extBuilt = 0
    /\ run_status = "ok"

C2_Witness == pc = "load" /\ ~need_mypycify /\ runCalls = 1

\* C3: two forced invocations on the same source and flags compute two
\* distinct artifact paths, whatever the clock returns.
C3_ForcedPathsDistinct ==
  (SameInputs /\ Force) => module_path # prev[1].module_path

\* C4: a forced invocation never takes the cache-hit branch: it calls the
\* compiler and builds a real extension.
C4_ForceAlwaysRebuilds ==
  /\ (pc = "probed" /\ Force) => need_mypycify
  /\ (pc = "run" /\ Force) => (compilerCalls = 1 /\ extension # Nothing)

\* C5 as stated: after an invocation that failed in any step the user's
\* namespace is what it was before the invocation.
C5_FailureLeavesEnv ==
  (pc = "idle" /\ outcome \notin {None, "Done"}) => env = envBefore

\* The names of the export list before its first name missing from mdict.
RECURSIVE ListedBeforeMissing(_, _)
ListedBeforeMissing(mdict, keys) ==
  IF keys = <<>> \/ Head(keys) \notin DOMAIN mdict THEN {}
  ELSE {Head(keys)} \cup ListedBeforeMissing(mdict, Tail(keys))

\* C5 amended: nothing is pushed before the publish step, and a compile,
\* build or load failure leaves the user's namespace as it was; a publish
\* that fails on a missing exported name has pushed the names listed before
\* the missing one, and nothing else has changed.
C5_FailureLeavesEnvExceptPublish ==
  /\ pc # "idle" => env = envBefore
  /\ (pc = "idle" /\ outcome \notin {None, "Done", "raise AttributeError"}) =>
       env = envBefore
  /\ (pc = "idle" /\ outcome = "raise AttributeError") =>
       LET pushed == ListedBeforeMissing(module, module["__all__"])
       IN env = [k \in DOMAIN envBefore \cup pushed |->
                   IF k \in pushed THEN module[k] ELSE envBefore[k]]

C5_Witness ==
  /\ pc = "idle" /\ outcome = "raise AttributeError"
  /\ env # envBefore
  /\ "g" \in DOMAIN module /\ "g" \notin DOMAIN env

\* C6: after a compilation failure the build driver and the loader have not
\* been called and no artifact is at the canonical path, so that the same
\* invocation, not forced, misses again.
C6_CompileFailureLeavesNoArtifact ==
  /\ (pc = "idle" /\ outcome = "Failed(CompileError)") =>
       /\ runCalls = 0 /\ extBuilt = 0 /\ loadCalls = 0
       /\ ~(module_path \in DOMAIN fs)
       /\ ~Force => NeedMypycify(fs, code_cache, key, module_path)
  /\ (SameInputs /\ ~Force /\ prev[1].outcome = "Failed(CompileError)") =>
       need_mypycify

C6_Witness ==
  /\ SameInputs /\ ~Force /\ prev[1].outcome = "Failed(CompileError)"
  /\ pc = "build" /\ compilerCalls = 1

\* C7: whatever makes the build driver fail, the invocation returns
\* normally (Failed(BuildError)) and nothing is loaded or published.
C7_BuildFailureReturns ==
  (pc = "idle" /\ run_status \in RunRaises) =>
    (outcome = "Failed(BuildError)" /\ loadCalls = 0 /\ env = envBefore)

\* C8: in one invocation the compiler is called at most once and the build
\* driver builds at most one extension, whatever fails; a load failure on a
\* cache hit ends the invocation without a compiler call.
C8_NoRetry ==
  /\ compilerCalls <= 1 /\ runCalls <= 1 /\ extBuilt <= 1 /\ loadCalls <= 1
  /\ (pc = "idle" /\ outcome = "raise ImportError" /\ ~need_mypycify) =>
       (compilerCalls = 0 /\ extBuilt = 0)
  /\ (pc = "idle" /\ outcome \notin {None, "Done"}) =>
       (run_status \in RunRaises => loadCalls = 0)

C8_Witness ==
  pc = "idle" /\ outcome = "raise ImportError" /\ ~need_mypycify /\ loadCalls = 1

Sources(files) == {p \in DOMAIN files : p[2] = ".py"}

\* C9: no step removes a file of the cache directory or changes a source
\* file already written, and the compile step of a miss, and no other
\* step, writes one source file: module_name.py, holding the code.
C9_AppendOnly ==
  [][ /\ DOMAIN fs \subseteq DOMAIN fs'
      /\ IF pc = "probed" /\ need_mypycify
         THEN /\ Sources(fs') = Sources(fs) \cup {<<module_name, ".py">>}
              /\ fs'[<<module_name, ".py">>].text = code
         ELSE Sources(fs') = Sources(fs)
      /\ \A p \in Sources(fs) : fs'[p] = fs[p] ]_vars

C9_Witness ==
  /\ pc = "build" /\ need_mypycify
  /\ <<module_name, ".py">> \in DOMAIN fs
  /\ prev # Nothing /\ prev[1].module_path \in DOMAIN fs
  /\ prev[1].module_path # module_path

\* C10: for a cell that does not end in a newline, a non-forced invocation
\* computes the key, module name and artifact path it computes for the
\* cell followed by a newline.
C10_TrailingNewline ==
  (pc = "probed" /\ ~Force /\ ~EndsWithNewline(cell)) =>
    LET c2 == Append(cell, "\n")
        k2 == MakeKey(Normalize(c2), line, toolchain, now)
    IN /\ key = k2
       /\ module_name = ModuleName(k2)
       /\ module_path = ModulePath(ModuleName(k2))

C10_Witness ==
  /\ pc = "probed" /\ ~Force /\ ~EndsWithNewline(cell)
  /\ Len(cell) > 0
  /\ key[1] = Append(cell, "\n")

\* The artifact path a non-forced invocation computes for a cell, a flag
\* line and a toolchain.
PathFor(c, l, tc) == ModulePath(ModuleName(MakeKey(Normalize(c), l, tc, 0)))

\* The cells an invocation's cell is compared with: itself, itself with a
\* newline appended, itself without its last character, and the cells of Spec.
Variants(c) == {c, Append(c, "\n"), SubSeq(c, 1, Len(c) - 1)} \cup Cells

\* C11: a non-forced invocation computes the module name and artifact path
\* of another non-forced invocation exactly when the two have the same
\* normalized source, flag line, Python version, executable and mypy
\* version.
C11_KeySensitivity ==
  (pc = "probed" /\ ~Force) =>
    \A c2 \in Variants(cell), l2 \in KeyLines, tc2 \in Toolchains :
      ~ParseArgs(l2).force =>
        /\ (PathFor(c2, l2, tc2) = module_path) <=>
             (Normalize(c2) = code /\ l2 = line /\ tc2 = toolchain)
        /\ (PathFor(c2, l2, tc2)[1] = module_name) <=>
             (PathFor(c2, l2, tc2) = module_path)

C11_Witness ==
  /\ pc = "probed" /\ ~Force /\ Len(cell) > 1
  /\ \E tc2 \in Toolchains :
       /\ tc2.mypy_version # toolchain.mypy_version
       /\ PathFor(cell, line, tc2) # module_path
  /\ \E c2 \in Variants(cell) : c2 # cell /\ PathFor(c2, line, toolchain) = module_path

\* The invocation has ended in _import_all.
Published == pc = "idle" /\ outcome \in {"Done", "raise AttributeError"}

\* The names of a module that do not start with an underscore, and those
\* that do.
PublicNames == {"f", "g", "h"}
UnderscoreNames == {"_p", "__name__", "__all__"}

\* The user's namespace binds k as it did before the invocation.
Untouched(k) ==
  /\ k \in DOMAIN env <=> k \in DOMAIN envBefore
  /\ k \in DOMAIN env => env[k] = envBefore[k]

\* C12: when the loaded module has no __all__, _import_all publishes every
\* name of the module that does not start with an underscore, and nothing
\* else: no underscore name is bound and every other binding is as before.
C12_DefaultExports ==
  (Published /\ "__all__" \notin DOMAIN module) =>
    /\ outcome = "Done"
    /\ \A k \in DOMAIN module \cap PublicNames : k \in DOMAIN env /\ env[k] = module[k]
    /\ \A k \in UnderscoreNames : k \notin DOMAIN env
    /\ \A k \in (DOMAIN env \cup DOMAIN envBefore) \ (DOMAIN module \cap PublicNames) :
         Untouched(k)

C12_Witness ==
  /\ Published /\ "__all__" \notin DOMAIN module
  /\ {"_p", "f", "h"} \subseteq DOMAIN module
  /\ env["f"] = module["f"] /\ env["h"] = module["h"]
  /\ "_p" \notin DOMAIN env

\* The module's export list names a symbol the module does not have.
ListsMissingName ==
  /\ "__all__" \in DOMAIN module
  /\ \E i \in 1..Len(module["__all__"]) : module["__all__"][i] \notin DOMAIN module

\* The position of the first name of the export list that the module lacks.
FirstMissing ==
  CHOOSE i \in 1..Len(module["__all__"]) :
    /\ module["__all__"][i] \notin DOMAIN module
    /\ \A j \in 1..(i - 1) : module["__all__"][j] \in DOMAIN module

\* C13 as stated: an export list naming a symbol the module lacks makes the
\* publishing fail with a NameError that names the missing symbol.
C13_MissingNameIsNameError ==
  (Published /\ ListsMissingName) =>
    /\ outcome = "raise NameError"
    /\ missing = module["__all__"][FirstMissing]

\* C13: an export list naming a symbol the module lacks makes the publishing
\* fail with an AttributeError whose message names the first missing symbol.
C13_MissingNameIsAttributeError ==
  (Published /\ ListsMissingName) =>
    /\ outcome = "raise AttributeError"
    /\ missing = module["__all__"][FirstMissing]

C13_Witness ==
  /\ Published /\ ListsMissingName
  /\ "f" \in DOMAIN module /\ "h" \notin DOMAIN module
  /\ outcome = "raise AttributeError" /\ missing = "h"

\* C14: when publishing an export list raises on a missing name, every name
\* listed before it is bound to the module's value, and no name listed after
\* it has been published: it is bound as it was before the invocation.
C14_PrefixPublished ==
  (Published /\ ListsMissingName) =>
    LET all == module["__all__"] IN
      /\ \A j \in 1..(FirstMissing - 1) :
           all[j] \in DOMAIN env /\ env[all[j]] = module[all[j]]
      /\ \A j \in FirstMissing..Len(all) : Untouched(all[j])

C14_Witness ==
  /\ Published /\ ListsMissingName
  /\ {"f", "g"} \subseteq DOMAIN module
  /\ FirstMissing = 2
  /\ env["f"] = module["f"] /\ envBefore["f"] # module["f"]
  /\ "g" \in DOMAIN envBefore /\ env["g"] = envBefore["g"]

\* The names _import_all selects from the loaded module.
Selected ==
  IF "__all__" \in DOMAIN module THEN Range(module["__all__"])
  ELSE DOMAIN module \cap PublicNames

\* C15: after a successful publish every selected name is bound to the
\* loaded module's value, whatever it was bound to before, and every other
\* binding of the namespace is as it was.
C15_LastPublishWins ==
  (Published /\ outcome = "Done") =>
    /\ \A k \in Selected : k \in DOMAIN env /\ env[k] = [module |-> module_name, attr |-> k]
    /\ \A k \in (DOMAIN env \cup DOMAIN envBefore) \ Selected : Untouched(k)

C15_Witness ==
  /\ Published /\ outcome = "Done"
  /\ "__all__" \in DOMAIN module
  /\ envBefore["f"].module = EarlierModule /\ EarlierModule # module_name
  /\ env["f"].module = module_name
  /\ env["x"] = UserValue

\* The last invocation returned to its caller.
Returned == pc = "idle" /\ outcome \in {"Done", "Failed(CompileError)", "Failed(BuildError)"}

\* C16 as stated: after an invocation has returned, every key of _code_cache
\* has a built artifact at the path of its module name, also when the build
\* step of the invocation failed.
C16_CacheHoldsBuiltKeys ==
  Returned =>
    \A k \in DOMAIN code_cache : Loadable(fs, ModulePath(code_cache[k]))

\* The invocation is inside _build_extension, past the change of the threshold.
InBuildExtension == pc \in {"run", "link", "linking", "finally"}

\* C19: with quiet true the threshold stays at the value it had; with quiet
\* false it is DEBUG only while _build_extension runs, the value it had is
\* kept in old_threshold, and it is back once the call has returned or raised.
C19_ThresholdRestored ==
  /\ ParseArgs(line).quiet => threshold = WARN /\ old_threshold = Nothing
  /\ ~InBuildExtension => threshold = WARN
  /\ (InBuildExtension /\ ~ParseArgs(line).quiet) =>
       threshold = DEBUG /\ old_threshold = Some(WARN)

C19_Witness ==
  /\ pc = "idle" /\ outcome = "raise LinkError"
  /\ ~ParseArgs(line).quiet
  /\ old_threshold = Some(WARN) /\ threshold = WARN

\* The artifact at the running invocation's path is half written.
HalfWritten == IsFile(fs, module_path) /\ ~fs[module_path].complete

\* C17: nothing makes the probe wait for a writer: an invocation that probes
\* its path while the artifact there is half written takes the hit branch.
C17_ProbeHitsHalfWritten ==
  [][(pc = "idle" /\ pc' = "probed" /\ IsFile(fs, module_path') /\
        ~fs[module_path'].complete) => ~need_mypycify']_vars

\* A non-forced invocation took the hit branch and called the loader on the
\* artifact that the second process, building the same key, is still writing.
C17_Witness ==
  /\ pc = "idle" /\ outcome = "raise ImportError" /\ ~Force
  /\ ~need_mypycify /\ compilerCalls = 0 /\ loadCalls = 1
  /\ HalfWritten
  /\ OtherWrites(module_path) /\ other.need_mypycify

\* Both processes missed on the same key of a non-forced invocation, and the
\* build of each has succeeded.
BothBuilt ==
  /\ ~Force /\ need_mypycify /\ run_status = "ok"
  /\ other.need_mypycify /\ other.run_status = "ok"
  /\ other.module_name = module_name

====
